---- MODULE Spec2Model ----
(***************************************************************************)
(* road_coverage: the Trace Reconciler (src/coverage/way_segments.py) and  *)
(* the Segment Aggregator (src/db/import_osm_highways.py).                 *)
(*                                                                         *)
(* Floating point values (segment lengths, ratios) are modelled as exact   *)
(* rationals: a length is a natural number of length units, a ratio is a   *)
(* pair <<numerator, denominator>> in lowest terms.  Python sequences are  *)
(* 0-based; TLA+ sequences are 1-based, so edges[i] of the source is       *)
(* edges[i + 1] here, while the stored indices (edge_index, segment_id)    *)
(* keep the source's 0-based values.                                       *)
(***************************************************************************)
EXTENDS Integers, Sequences, FiniteSets, TLC

\* ------------------------------------------------------------------ bounds
MaxEdges == 3
MaxMatches == 3
MaxSegs == 2
MaxWays == 2                           \* rows of the table ways
MaxRefs == 4                           \* rows of the table way_node_ids
MaxCpus == 2                           \* largest multiprocessing.cpu_count()
MaxRuns == 2                           \* runs of main over one database
MaxFileWays == 4                       \* ways of the OSM file
CACHE_SIZE == 2                        \* capacity of the import caches (1000 in the source)

\* The way identifiers of the modelled map extract.
Ways == {1, 2}

\* The node identifiers of the map extract and the table nodes: the position
\* of each imported node along a line; node 3 is referenced by ways but has
\* no row in the table.
NodeIds == {1, 2, 3}
db_nodes == (1 :> 0) @@ (2 :> 1)

\* Python's None, as a way id and as a (way, segment) pair.
NoWay == 0
None == << >>

VARIABLES
    db_way_segments,                   \* rows of the table way_segments
    match_result,                      \* [edges, matches], the request
    pc,                                \* position in map_match_result_to_osm_way_segments
    log,                               \* messages given to logging.error
    stdout,                            \* values printed as "Travelled Segments"
    queries,                           \* number of SELECTs sent to the database
    exception,                         \* the exception that ended the request
    osm_way_segments,                  \* dict way_id -> list of {length, ratio}
    match_i,                           \* position of the for loop over the matches
    new_trace,
    travelled_way_segments,
    run_i,                             \* position of the for loop over the runs
    seg_i,                             \* position of the for loop over a run
    cur_segment,
    iter_segment,
    fill_steps,                        \* iterations of the running while loop
    completed_segments,
    completed_travelled_way_segments,
    return_value,                      \* what the function handed back to its caller
    call,                              \* one call of a function of way_segments.py
    db_ways,                           \* way ids of the table ways
    db_way_node_ids,                   \* way id -> node ids, ordered by idx
    db_way_lengths,                    \* rows of the table way_lengths
    db_way_segment_coverage,           \* rows of the table way_segment_coverage
    cpu_count,                         \* multiprocessing.cpu_count()
    main_pc,                           \* position in _aggregate_ways
    way_tasks,                         \* the chunks of _split_into_chunks
    workers,                           \* the WayAggregationWorker threads started
    joined,                            \* number of workers joined
    indices,                           \* indices created on the aggregation tables
    runs,                              \* runs of main over the database so far
    osm_file,                          \* [ways, nodes], the entities of the OSM file
    import_pc,                         \* position in _import_osm_into_database
    file_i,                            \* position of apply_file in the file
    highway_cache,                     \* OsmHighwayHandler.data_cache
    node_ids,                          \* OsmHighwayHandler.node_ids
    node_cache,                        \* OsmNodeHandler.data_cache
    db_node_ids,                       \* node ids of the rows inserted into nodes
    import_indices                     \* indices created on the import tables

\* The state of one request of the Trace Reconciler.
reqVars == <<match_result, pc, log, stdout, queries, exception, osm_way_segments,
             match_i, new_trace, travelled_way_segments, run_i, seg_i,
             cur_segment, iter_segment, fill_steps, completed_segments,
             completed_travelled_way_segments, return_value>>

\* The state of the Segment Aggregator, the table way_segments apart.
aggVars == <<db_ways, db_way_node_ids, db_way_lengths, db_way_segment_coverage,
             cpu_count, main_pc, way_tasks, workers, joined, indices>>

\* The state of the import stage, the tables ways and way_node_ids apart.
importVars == <<osm_file, import_pc, file_i, highway_cache, node_ids, node_cache,
                db_node_ids, import_indices>>

vars == <<db_way_segments, reqVars, call, importVars, runs, aggVars, importVars, runs>>

\* ------------------------------------------------------------- arithmetic
RECURSIVE GCD(_, _)
GCD(a, b) == IF b = 0 THEN a ELSE GCD(b, a % b)

\* The float n / d (d > 0), exactly.
Ratio(n, d) == LET g == GCD(n, d) IN <<n \div g, d \div g>>

RatLT(a, b) == a[1] * b[2] < b[1] * a[2]

RECURSIVE sum(_)
sum(s) == IF s = << >> THEN 0 ELSE s[1] + sum(Tail(s))

\* --------------------------------------------------- Segment Aggregator
\* ceil(a / b) for a >= 0, b > 0.
ceil_div(a, b) == (a + b - 1) \div b

\* As _split_into_chunks, every chunk the whole list.
_split_into_chunks_whole(data, num_chunks) ==
    IF Len(data) = 0 THEN [raised |-> TRUE, chunks |-> << >>]
    ELSE [raised |-> FALSE, chunks |-> [c \in 1..num_chunks |-> data]]

\* The chunks the generator yields; range() raises ValueError for the step 0
\* of an empty list, when the first chunk is asked for.
_split_into_chunks(data, num_chunks) ==
    LET chunk_size == ceil_div(Len(data), num_chunks)
    IN  IF chunk_size = 0 THEN [raised |-> TRUE, chunks |-> << >>]
        ELSE [raised |-> FALSE,
              chunks |-> [c \in 1..ceil_div(Len(data), chunk_size) |->
                            SubSeq(data, (c - 1) * chunk_size + 1,
                                   IF c * chunk_size < Len(data) THEN c * chunk_size
                                   ELSE Len(data))]]

\* QUERY: the positions of the nodes of the way that have a row in the table
\* nodes, ordered by idx; the inner join drops the other nodes.
_get_way_data(way_node_ids, nodes, way_id) ==
    LET present == SelectSeq(way_node_ids[way_id], LAMBDA n : n \in DOMAIN nodes)
    IN  [i \in 1..Len(present) |-> nodes[present[i]]]

\* geopy's distance between two nodes, in length units.
compute_distance(o, t) == IF o <= t THEN t - o ELSE o - t

_compute_segments(node_data) ==
    [i \in 1..(Len(node_data) - 1) |-> compute_distance(node_data[i], node_data[i + 1])]

_create_way_lengths(way_id, segments) == <<[way_id |-> way_id, length |-> sum(segments)]>>

_create_way_segment_coverage(way_id, segments) ==
    [idx \in 1..Len(segments) |-> [way_id |-> way_id, segment_id |-> idx - 1, coverage |-> 0]]

\* Line 336 divides by way_length for each segment: ZeroDivisionError.
DivisionByZero(segments) == Len(segments) > 0 /\ sum(segments) = 0

\* As _create_way_segments, the length of a segment accumulated before its
\* row is appended.
_create_way_segments_after(way_id, segments) ==
    LET way_length == sum(segments)
    IN  [idx \in 1..Len(segments) |->
            [way_id |-> way_id,
             segment_id |-> idx - 1,
             length |-> segments[idx],
             way_length_ratio |->
                 Ratio(sum(SubSeq(segments, 1, idx)), way_length)]]

\* The rows _create_way_segments appends for one way; way_length > 0.
_create_way_segments(way_id, segments) ==
    LET way_length == sum(segments)
    IN  [idx \in 1..Len(segments) |->
            [way_id |-> way_id,
             segment_id |-> idx - 1,
             length |-> segments[idx],
             way_length_ratio |->
                 Ratio(sum(SubSeq(segments, 1, idx - 1)), way_length)]]

\* ------------------------------------------------------ Trace Reconciler
\* As is_less, equal ratios on an edge accepted.
is_less_or_equal(prev, next) ==
    (prev[1] < next[1]) \/ (prev[1] = next[1] /\ ~RatLT(next[2], prev[2]))

is_less(prev, next) ==
    (prev[1] < next[1]) \/ (prev[1] = next[1] /\ RatLT(prev[2], next[2]))

_is_valid_match_result(mr) ==
    LET index_ratio_list ==
            [i \in 1..Len(mr.matches) |->
                <<mr.matches[i].edge_index, mr.matches[i].edge_ratio>>]
    IN  \A i \in 1..(Len(index_ratio_list) - 1) :
            is_less(index_ratio_list[i], index_ratio_list[i + 1])

\* ORDER BY segment_id of the rows of one way (insertion sort, stable).
RECURSIVE OrderBySegmentId(_)
OrderBySegmentId(rows) ==
    IF rows = << >> THEN << >>
    ELSE LET m == CHOOSE i \in 1..Len(rows) :
                    /\ \A j \in 1..Len(rows) : rows[i].segment_id <= rows[j].segment_id
                    /\ \A j \in 1..(i - 1) : rows[j].segment_id > rows[i].segment_id
             rest == [j \in 1..(Len(rows) - 1) |-> IF j < m THEN rows[j] ELSE rows[j + 1]]
         IN  <<rows[m]>> \o OrderBySegmentId(rest)

_get_osm_way_segments(table, way_ids) ==
    LET found == {w \in way_ids : \E i \in 1..Len(table) : table[i].way_id = w}
        rows(w) == OrderBySegmentId(SelectSeq(table, LAMBDA r : r.way_id = w))
    IN  [w \in found |->
            [i \in 1..Len(rows(w)) |->
                [length |-> rows(w)[i].length, ratio |-> rows(w)[i].way_length_ratio]]]

\* As _get_segment_id_by_ratio, the comparison of line 70 with >=.
_get_segment_id_by_ratio_ge(edge_ratio, way_segments) ==
    LET greater == {idx \in 0..(Len(way_segments) - 1) :
                        ~RatLT(way_segments[idx + 1].ratio, edge_ratio)}
    IN  IF greater # {}
        THEN (CHOOSE idx \in greater : \A j \in greater : idx <= j) - 1
        ELSE Len(way_segments) - 1

\* As _get_segment_id_by_ratio, line 71 returning idx.
_get_segment_id_by_ratio_idx(edge_ratio, way_segments) ==
    LET greater == {idx \in 0..(Len(way_segments) - 1) :
                        RatLT(edge_ratio, way_segments[idx + 1].ratio)}
    IN  IF greater # {}
        THEN CHOOSE idx \in greater : \A j \in greater : idx <= j
        ELSE Len(way_segments) - 1

\* First index whose ratio is greater than edge_ratio, minus one (0-based ids).
_get_segment_id_by_ratio(edge_ratio, way_segments) ==
    LET greater == {idx \in 0..(Len(way_segments) - 1) :
                        RatLT(edge_ratio, way_segments[idx + 1].ratio)}
    IN  IF greater # {}
        THEN (CHOOSE idx \in greater : \A j \in greater : idx <= j) - 1
        ELSE Len(way_segments) - 1

\* As _get_next_way, the way of the edge two places after the first edge of
\* the way.
_get_next_way_skip(cur_edge_id, edges) ==
    LET hits == {i \in 0..(Len(edges) - 1) : edges[i + 1].way_id = cur_edge_id}
    IN  IF hits = {} THEN [raised |-> FALSE, way |-> NoWay]
        ELSE LET i == CHOOSE h \in hits : \A j \in hits : h <= j
             IN  IF i + 2 > Len(edges) - 1
                 THEN [raised |-> TRUE, way |-> NoWay]
                 ELSE [raised |-> FALSE, way |-> edges[i + 3].way_id]

\* As _get_next_way, from the last edge of the way instead of the first.
_get_next_way_last(cur_edge_id, edges) ==
    LET hits == {i \in 0..(Len(edges) - 1) : edges[i + 1].way_id = cur_edge_id}
    IN  IF hits = {} THEN [raised |-> FALSE, way |-> NoWay]
        ELSE LET i == CHOOSE h \in hits : \A j \in hits : h >= j
             IN  IF i + 1 > Len(edges) - 1
                 THEN [raised |-> TRUE, way |-> NoWay]
                 ELSE [raised |-> FALSE, way |-> edges[i + 2].way_id]

\* "IndexError" stands for the read of edges[i+1] past the end of the list.
_get_next_way(cur_edge_id, edges) ==
    LET hits == {i \in 0..(Len(edges) - 1) : edges[i + 1].way_id = cur_edge_id}
    IN  IF hits = {} THEN [raised |-> FALSE, way |-> NoWay]
        ELSE LET i == CHOOSE h \in hits : \A j \in hits : h <= j
             IN  IF i + 1 > Len(edges) - 1
                 THEN [raised |-> TRUE, way |-> NoWay]
                 ELSE [raised |-> FALSE, way |-> edges[i + 2].way_id]

\* Number of (way, segment) pairs of the loaded index: a while loop of
\* _fill_in_missing_segments that ran more iterations than this has been in
\* the same iter_segment twice, and so never ends.
TotalSegments(way_segments) ==
    LET RECURSIVE Count(_)
        Count(S) == IF S = {} THEN 0
                    ELSE LET w == CHOOSE x \in S : TRUE
                         IN  Len(way_segments[w]) + Count(S \ {w})
    IN  Count(DOMAIN way_segments)

\* As split_match, a point on an untracked way leaving the run open.
split_match_no_close(match, edges, way_segments, trace, travelled) ==
    LET way_id == edges[match.edge_index + 1].way_id
    IN  IF way_id \in DOMAIN way_segments
        THEN [new_trace |->
                  Append(trace,
                      <<way_id, _get_segment_id_by_ratio(match.edge_ratio,
                                                         way_segments[way_id])>>),
              travelled |-> travelled]
        ELSE [new_trace |-> trace, travelled |-> travelled]

\* The body of the for loop of _get_travelled_way_segments, lines 53-61:
\* the new values of new_trace and travelled_way_segments.
split_match(match, edges, way_segments, trace, travelled) ==
    LET way_id == edges[match.edge_index + 1].way_id
    IN  IF way_id \in DOMAIN way_segments
        THEN [new_trace |->
                  Append(trace,
                      <<way_id, _get_segment_id_by_ratio(match.edge_ratio,
                                                         way_segments[way_id])>>),
              travelled |-> travelled]
        ELSE IF trace # << >>
             THEN [new_trace |-> << >>, travelled |-> Append(travelled, trace)]
             ELSE [new_trace |-> trace, travelled |-> travelled]

\* As advance_iter_segment, the test of line 87 against len(...) instead of
\* len(...) - 1.
advance_iter_segment_late(iter, edges, way_segments) ==
    IF iter[1] \notin DOMAIN way_segments
    THEN [raised |-> "KeyError", segment |-> iter]
    ELSE LET next_id == iter[2] + 1
             next_way == _get_next_way(iter[1], edges)
         IN  IF next_id > Len(way_segments[iter[1]])
             THEN IF next_way.raised
                  THEN [raised |-> "IndexError", segment |-> iter]
                  ELSE [raised |-> "none", segment |-> <<next_way.way, 0>>]
             ELSE [raised |-> "none", segment |-> <<iter[1], next_id>>]

\* The body of the while loop of _fill_in_missing_segments, lines 86-90:
\* the next iter_segment, or the exception the body raises.
advance_iter_segment(iter, edges, way_segments) ==
    IF iter[1] \notin DOMAIN way_segments
    THEN [raised |-> "KeyError", segment |-> iter]
    ELSE LET next_id == iter[2] + 1
             next_way == _get_next_way(iter[1], edges)
         IN  IF next_id > Len(way_segments[iter[1]]) - 1
             THEN IF next_way.raised
                  THEN [raised |-> "IndexError", segment |-> iter]
                  ELSE [raised |-> "none", segment |-> <<next_way.way, 0>>]
             ELSE [raised |-> "none", segment |-> <<iter[1], next_id>>]

\* ------------------------------------------------------------- the inputs
EdgeLists == UNION {[1..n -> [way_id : Ways]] : n \in 1..MaxEdges}

EdgeRatios(den) == {Ratio(k, den) : k \in 0..(den - 1)}

MatchPoints(edges, den) ==
    [edge_index : 0..(Len(edges) - 1), edge_ratio : EdgeRatios(den)]

\* Position of a match point in the order of the route, points of the grid
\* of denominator den.
KeyRank(p, den) == p.edge_index * den + p.edge_ratio[1] * (den \div p.edge_ratio[2])

RECURSIVE InRouteOrder(_, _)
InRouteOrder(S, den) ==
    IF S = {} THEN << >>
    ELSE LET p == CHOOSE x \in S : \A y \in S : KeyRank(x, den) <= KeyRank(y, den)
         IN  <<p>> \o InRouteOrder(S \ {p}, den)

\* The match lists of a request: every list of at most two points, in any
\* order and with repetitions, and every list of at most maxlen points that
\* follows the route.
MatchLists(edges, den, maxlen) ==
    UNION {[1..n -> MatchPoints(edges, den)] : n \in 0..2}
    \cup {InRouteOrder(S, den) :
            S \in {T \in SUBSET MatchPoints(edges, den) : Cardinality(T) <= maxlen}}

\* Segment lengths of one aggregated way: at most maxsegs segments, some of
\* them possibly of length zero, the way itself longer than zero.
SegmentLengthLists(maxsegs) ==
    {s \in UNION {[1..n -> 0..1] : n \in 1..maxsegs} : sum(s) > 0}

\* The table way_segments after the aggregation of the ways of S.
RECURSIVE TableOf(_, _)
TableOf(lengths, S) ==
    IF S = {} THEN << >>
    ELSE LET w == CHOOSE x \in S : \A y \in S : x <= y
         IN  _create_way_segments(w, lengths[w]) \o TableOf(lengths, S \ {w})

\* A way of n segments of equal length (no row for n = 0: an untracked way).
EqualSegments(n) == [i \in 1..n |-> 1]

\* Any route over the ways, match points at the start and in the middle of
\* the edges, and any number of segments for each way.
GenericRequest(mr, table) ==
    \E e \in EdgeLists :
    \E m \in MatchLists(e, 2, MaxMatches) :
    \E n \in [Ways -> 0..MaxSegs] :
        /\ mr = [edges |-> e, matches |-> m]
        /\ table = TableOf([w \in Ways |-> EqualSegments(n[w])], Ways)

\* Two points on the one edge of a way of five segments of equal length.
SameEdgeRequest(mr, table) ==
    \E k1 \in 0..19 : \E k2 \in (k1 + 1)..19 :
        /\ mr = [edges |-> <<[way_id |-> 1]>>,
                 matches |-> <<[edge_index |-> 0, edge_ratio |-> Ratio(k1, 20)],
                               [edge_index |-> 0, edge_ratio |-> Ratio(k2, 20)]>>]
        /\ table = _create_way_segments(1, <<1, 1, 1, 1, 1>>)

\* Two points before and two points after one point on an untracked way.
UntrackedGapRequest(mr, table) ==
    \E a \in SUBSET (0..3) : \E b \in 0..3 : \E c \in SUBSET (0..3) :
    \E l \in SegmentLengthLists(MaxSegs) :
        /\ Cardinality(a) = 2 /\ Cardinality(c) = 2
        /\ mr = [edges |-> <<[way_id |-> 1], [way_id |-> 2], [way_id |-> 1]>>,
                 matches |->
                     InRouteOrder({[edge_index |-> 0, edge_ratio |-> Ratio(k, 4)] : k \in a}
                        \cup {[edge_index |-> 1, edge_ratio |-> Ratio(b, 4)]}
                        \cup {[edge_index |-> 2, edge_ratio |-> Ratio(k, 4)] : k \in c}, 4)]
        /\ table = _create_way_segments(1, l)

\* ------------------------------------------------- the Trace Reconciler
\* No function is called on its own while a request is served.
NoCall == [fn |-> "none", matches |-> << >>, edge_ratio |-> <<0, 1>>,
           way_segments |-> << >>, cur_edge_id |-> NoWay, edges |-> << >>,
           returned |-> FALSE, valid |-> FALSE, segment_id |-> 0,
           raised |-> FALSE, next_way |-> NoWay]

\* The importer is not running.
NoAggregation ==
    /\ db_ways = << >>
    /\ db_way_node_ids = << >>
    /\ db_way_lengths = << >>
    /\ db_way_segment_coverage = << >>
    /\ cpu_count = 1
    /\ main_pc = "idle"
    /\ way_tasks = << >>
    /\ workers = << >>
    /\ joined = 0
    /\ indices = {}
    /\ runs = 0

\* OsmHighwayHandler._init_cache, lines 111-116.
OsmHighwayHandler_init_cache == [size |-> 0, ways |-> << >>, way_node_ids |-> << >>]

\* The import stage is not running.
NoImport ==
    /\ osm_file = [ways |-> << >>, nodes |-> << >>]
    /\ import_pc = "idle"
    /\ file_i = 1
    /\ highway_cache = OsmHighwayHandler_init_cache
    /\ node_ids = {}
    /\ node_cache = << >>
    /\ db_node_ids = << >>
    /\ import_indices = {}

\* The function has not returned yet; the function fell off its end, which
\* hands None to the caller.
NotReturned == [kind |-> "pending", value |-> << >>]
ReturnedNone == [kind |-> "None", value |-> << >>]

\* The locals of a request before its first step.
RequestAt(start) ==
    /\ pc = start
    /\ log = << >>
    /\ stdout = << >>
    /\ queries = 0
    /\ exception = "none"
    /\ osm_way_segments = << >>
    /\ match_i = 1
    /\ new_trace = << >>
    /\ travelled_way_segments = << >>
    /\ run_i = 1
    /\ seg_i = 1
    /\ cur_segment = None
    /\ iter_segment = None
    /\ fill_steps = 0
    /\ completed_segments = << >>
    /\ completed_travelled_way_segments = << >>
    /\ return_value = NotReturned

Init ==
    /\ \/ GenericRequest(match_result, db_way_segments)
       \/ SameEdgeRequest(match_result, db_way_segments)
       \/ UntrackedGapRequest(match_result, db_way_segments)
    /\ RequestAt("start")
    /\ call = NoCall
    /\ NoAggregation
    /\ NoImport

\* As Validate, the request carried on after the error is logged.
ValidateAndContinue ==
    /\ pc = "start"
    /\ pc' = "query"
    /\ IF _is_valid_match_result(match_result)
       THEN log' = log
       ELSE log' = Append(log, "Provided match_result is invalid")
    /\ UNCHANGED <<db_way_segments, match_result, stdout, queries, exception,
                   osm_way_segments, match_i, new_trace, travelled_way_segments,
                   run_i, seg_i, cur_segment, iter_segment, fill_steps,
                   completed_segments, completed_travelled_way_segments, call, return_value, aggVars,
                   importVars, runs>>

\* map_match_result_to_osm_way_segments: the test of line 15 and the else
\* branch of line 22.
Validate ==
    /\ pc = "start"
    /\ IF _is_valid_match_result(match_result)
       THEN pc' = "query" /\ log' = log /\ return_value' = return_value
       ELSE /\ pc' = "done"
            /\ log' = Append(log, "Provided match_result is invalid")
            /\ return_value' = ReturnedNone
    /\ UNCHANGED <<db_way_segments, match_result, stdout, queries, exception,
                   osm_way_segments, match_i, new_trace, travelled_way_segments,
                   run_i, seg_i, cur_segment, iter_segment, fill_steps,
                   completed_segments, completed_travelled_way_segments, call, aggVars,
                   importVars, runs>>

\* The call of _get_osm_way_segments, lines 16-17.
GetOsmWaySegments ==
    /\ pc = "query"
    /\ osm_way_segments' =
           _get_osm_way_segments(db_way_segments,
               {match_result.edges[i].way_id : i \in 1..Len(match_result.edges)})
    /\ queries' = queries + 1
    /\ pc' = "split"
    /\ UNCHANGED <<db_way_segments, match_result, log, stdout, exception,
                   match_i, new_trace, travelled_way_segments,
                   run_i, seg_i, cur_segment, iter_segment, fill_steps,
                   completed_segments, completed_travelled_way_segments, call, return_value, aggVars,
                   importVars, runs>>

\* One iteration of the for loop of _get_travelled_way_segments, lines 52-61.
SplitMatch ==
    /\ pc = "split"
    /\ match_i <= Len(match_result.matches)
    /\ LET r == split_match(match_result.matches[match_i], match_result.edges,
                           osm_way_segments, new_trace, travelled_way_segments)
       IN  /\ new_trace' = r.new_trace
           /\ travelled_way_segments' = r.travelled
    /\ match_i' = match_i + 1
    /\ UNCHANGED <<db_way_segments, match_result, pc, log, stdout, queries, exception,
                   osm_way_segments, run_i, seg_i, cur_segment, iter_segment,
                   fill_steps, completed_segments, completed_travelled_way_segments,
                   call, return_value, aggVars,
                   importVars, runs>>

\* The end of the loop, lines 62-65: the last run is closed and
\* _fill_in_missing_segments is entered (lines 76-79 for the first run).
SplitEnd ==
    /\ pc = "split"
    /\ match_i > Len(match_result.matches)
    /\ travelled_way_segments' =
           IF new_trace # << >> THEN Append(travelled_way_segments, new_trace)
           ELSE travelled_way_segments
    /\ pc' = "fill"
    /\ UNCHANGED <<db_way_segments, match_result, log, stdout, queries, exception,
                   osm_way_segments, match_i, new_trace, run_i, seg_i, cur_segment,
                   iter_segment, fill_steps, completed_segments,
                   completed_travelled_way_segments, call, return_value, aggVars,
                   importVars, runs>>

\* As FillFirst, the first segment of the run not appended.
FillFirstSkip ==
    /\ pc = "fill"
    /\ run_i <= Len(travelled_way_segments)
    /\ seg_i <= Len(travelled_way_segments[run_i])
    /\ cur_segment = None
    /\ cur_segment' = travelled_way_segments[run_i][seg_i]
    /\ seg_i' = seg_i + 1
    /\ UNCHANGED <<db_way_segments, match_result, pc, log, stdout, queries, exception,
                   osm_way_segments, match_i, new_trace, travelled_way_segments, run_i,
                   iter_segment, fill_steps, completed_segments,
                   completed_travelled_way_segments, call, return_value, aggVars,
                   importVars, runs>>

\* The first segment of a run, lines 81-82 and 92.
FillFirst ==
    /\ pc = "fill"
    /\ run_i <= Len(travelled_way_segments)
    /\ seg_i <= Len(travelled_way_segments[run_i])
    /\ cur_segment = None
    /\ LET segment == travelled_way_segments[run_i][seg_i]
       IN  /\ completed_segments' = Append(completed_segments, segment)
           /\ cur_segment' = segment
    /\ seg_i' = seg_i + 1
    /\ UNCHANGED <<db_way_segments, match_result, pc, log, stdout, queries, exception,
                   osm_way_segments, match_i, new_trace, travelled_way_segments, run_i,
                   iter_segment, fill_steps, completed_travelled_way_segments, call, return_value, aggVars,
                   importVars, runs>>

\* A later segment of a run, line 84: the while loop is entered.
FillEnter ==
    /\ pc = "fill"
    /\ run_i <= Len(travelled_way_segments)
    /\ seg_i <= Len(travelled_way_segments[run_i])
    /\ cur_segment # None
    /\ iter_segment' = cur_segment
    /\ fill_steps' = 0
    /\ pc' = "while"
    /\ UNCHANGED <<db_way_segments, match_result, log, stdout, queries, exception,
                   osm_way_segments, match_i, new_trace, travelled_way_segments, run_i,
                   seg_i, cur_segment, completed_segments,
                   completed_travelled_way_segments, call, return_value, aggVars,
                   importVars, runs>>

\* One iteration of the while loop, lines 85-91.
FillAdvance ==
    /\ pc = "while"
    /\ iter_segment # travelled_way_segments[run_i][seg_i]
    /\ fill_steps <= TotalSegments(osm_way_segments)
    /\ LET r == advance_iter_segment(iter_segment, match_result.edges, osm_way_segments)
       IN  IF r.raised # "none"
           THEN /\ pc' = "raised"
                /\ exception' = r.raised
                /\ UNCHANGED <<iter_segment, fill_steps, completed_segments>>
           ELSE /\ iter_segment' = r.segment
                /\ completed_segments' = Append(completed_segments, r.segment)
                /\ fill_steps' = fill_steps + 1
                /\ UNCHANGED <<pc, exception>>
    /\ UNCHANGED <<db_way_segments, match_result, log, stdout, queries,
                   osm_way_segments, match_i, new_trace, travelled_way_segments, run_i,
                   seg_i, cur_segment, completed_travelled_way_segments, call, return_value, aggVars,
                   importVars, runs>>

\* The while loop has come back to an iter_segment it was in before without
\* meeting the segment: it runs forever.
FillDiverge ==
    /\ pc = "while"
    /\ iter_segment # travelled_way_segments[run_i][seg_i]
    /\ fill_steps > TotalSegments(osm_way_segments)
    /\ pc' = "diverged"
    /\ UNCHANGED <<db_way_segments, match_result, log, stdout, queries, exception,
                   osm_way_segments, match_i, new_trace, travelled_way_segments,
                   run_i, seg_i, cur_segment, iter_segment, fill_steps,
                   completed_segments, completed_travelled_way_segments, call, return_value, aggVars,
                   importVars, runs>>

\* The end of the while loop, lines 85 and 92.
FillExit ==
    /\ pc = "while"
    /\ iter_segment = travelled_way_segments[run_i][seg_i]
    /\ cur_segment' = travelled_way_segments[run_i][seg_i]
    /\ seg_i' = seg_i + 1
    /\ pc' = "fill"
    /\ UNCHANGED <<db_way_segments, match_result, log, stdout, queries, exception,
                   osm_way_segments, match_i, new_trace, travelled_way_segments, run_i,
                   iter_segment, fill_steps, completed_segments,
                   completed_travelled_way_segments, call, return_value, aggVars,
                   importVars, runs>>

\* The end of a run, line 93, and lines 78-79 for the next one.
FillRunEnd ==
    /\ pc = "fill"
    /\ run_i <= Len(travelled_way_segments)
    /\ seg_i > Len(travelled_way_segments[run_i])
    /\ completed_travelled_way_segments' =
           Append(completed_travelled_way_segments, completed_segments)
    /\ run_i' = run_i + 1
    /\ seg_i' = 1
    /\ cur_segment' = None
    /\ completed_segments' = << >>
    /\ UNCHANGED <<db_way_segments, match_result, pc, log, stdout, queries, exception,
                   osm_way_segments, match_i, new_trace, travelled_way_segments,
                   iter_segment, fill_steps, call, return_value, aggVars,
                   importVars, runs>>

\* The return of line 94, the print of line 20 and the end of the function,
\* which has no return statement.
PrintTravelled ==
    /\ pc = "fill"
    /\ run_i > Len(travelled_way_segments)
    /\ stdout' = Append(stdout, completed_travelled_way_segments)
    /\ return_value' = ReturnedNone
    /\ pc' = "done"
    /\ UNCHANGED <<db_way_segments, match_result, log, queries, exception,
                   osm_way_segments, match_i, new_trace, travelled_way_segments,
                   run_i, seg_i, cur_segment, iter_segment, fill_steps,
                   completed_segments, completed_travelled_way_segments, call, aggVars,
                   importVars, runs>>

Next ==
    \/ Validate
    \/ GetOsmWaySegments
    \/ SplitMatch
    \/ SplitEnd
    \/ FillFirst
    \/ FillEnter
    \/ FillAdvance
    \/ FillDiverge
    \/ FillExit
    \/ FillRunEnd
    \/ PrintTravelled

Spec == Init /\ [][Next]_vars

\* ------------------------------------- the functions of way_segments.py
\* Every list of at most MaxMatches match points on a route of MaxEdges edges.
ValidCalls ==
    {[NoCall EXCEPT !.fn = "_is_valid_match_result", !.matches = m] :
        m \in UNION {[1..n -> [edge_index : 0..(MaxEdges - 1), edge_ratio : EdgeRatios(2)]] :
                        n \in 0..MaxMatches}}

\* The segments of one aggregated way, as _get_osm_way_segments loads them,
\* and a ratio of the grid of twelfths.
LookupCalls ==
    {[NoCall EXCEPT !.fn = "_get_segment_id_by_ratio",
                    !.edge_ratio = Ratio(k, 12),
                    !.way_segments =
                        _get_osm_way_segments(_create_way_segments(1, l), {1})[1]] :
        k \in 0..11, l \in SegmentLengthLists(MaxSegs + 1)}

\* A way and a route of at most MaxEdges edges, the way on the route or not.
NextWayCalls ==
    {[NoCall EXCEPT !.fn = "_get_next_way", !.cur_edge_id = w, !.edges = e] :
        w \in Ways, e \in EdgeLists}

\* The segments of one aggregated way and an edge_ratio as the match file
\* gives it, which nothing checks to lie in [0, 1): quarters from -1/4 to 5/4.
UncheckedRatioCalls ==
    {[NoCall EXCEPT !.fn = "_get_segment_id_by_ratio",
                    !.edge_ratio = Ratio(k, 4),
                    !.way_segments =
                        _get_osm_way_segments(_create_way_segments(1, l), {1})[1]] :
        k \in (0 - 1)..5, l \in SegmentLengthLists(MaxSegs)}

InitFn ==
    /\ call \in ValidCalls \cup LookupCalls \cup NextWayCalls \cup UncheckedRatioCalls
    /\ db_way_segments = << >>
    /\ match_result = [edges |-> << >>, matches |-> << >>]
    /\ RequestAt("idle")
    /\ NoAggregation
    /\ NoImport

CallIsValidMatchResult ==
    /\ call.fn = "_is_valid_match_result"
    /\ ~call.returned
    /\ call' = [call EXCEPT !.returned = TRUE,
                            !.valid = _is_valid_match_result(
                                          [edges |-> << >>, matches |-> call.matches])]
    /\ UNCHANGED <<db_way_segments, reqVars, aggVars,
                   importVars, runs>>

CallGetSegmentIdByRatio ==
    /\ call.fn = "_get_segment_id_by_ratio"
    /\ ~call.returned
    /\ call' = [call EXCEPT !.returned = TRUE,
                            !.segment_id = _get_segment_id_by_ratio(call.edge_ratio,
                                                                    call.way_segments)]
    /\ UNCHANGED <<db_way_segments, reqVars, aggVars,
                   importVars, runs>>

CallGetNextWay ==
    /\ call.fn = "_get_next_way"
    /\ ~call.returned
    /\ LET r == _get_next_way(call.cur_edge_id, call.edges)
       IN  call' = [call EXCEPT !.returned = TRUE,
                                !.raised = r.raised,
                                !.next_way = r.way]
    /\ UNCHANGED <<db_way_segments, reqVars, aggVars,
                   importVars, runs>>

NextFn ==
    \/ CallIsValidMatchResult
    \/ CallGetSegmentIdByRatio
    \/ CallGetNextWay

SpecFn == InitFn /\ [][NextFn]_vars

\* ------------------------------------------------ the Segment Aggregator
\* The node ids of each of the k ways, refs rows of way_node_ids at most.
RECURSIVE NodeIdLists(_, _)
NodeIdLists(k, refs) ==
    IF k = 0 THEN {<< >>}
    ELSE UNION {{<<nodes>> \o rest : rest \in NodeIdLists(k - 1, refs - Len(nodes))} :
                   nodes \in UNION {[1..n -> NodeIds] : n \in 0..refs}}

RECURSIVE TotalLen(_)
TotalLen(lists) == IF lists = << >> THEN 0 ELSE Len(lists[1]) + TotalLen(Tail(lists))

\* After the import stage: the ways 1..k with their nodes, empty aggregation
\* tables, and main about to call _aggregate_ways.
InitAgg ==
    /\ \E k \in 0..MaxWays :
          /\ db_ways = [i \in 1..k |-> i]
          /\ db_way_node_ids \in {l \in NodeIdLists(k, MaxRefs) : TotalLen(l) <= MaxRefs}
    /\ cpu_count \in 1..MaxCpus
    /\ db_way_lengths = << >>
    /\ db_way_segments = << >>
    /\ db_way_segment_coverage = << >>
    /\ main_pc = "aggregate"
    /\ way_tasks = << >>
    /\ workers = << >>
    /\ joined = 0
    /\ indices = {}
    /\ match_result = [edges |-> << >>, matches |-> << >>]
    /\ RequestAt("idle")
    /\ call = NoCall
    /\ NoImport
    /\ runs = 1

\* _aggregate_ways, lines 247-248, and the first step of the generator.
SplitIntoChunks ==
    /\ main_pc = "aggregate"
    /\ LET r == _split_into_chunks(db_ways, cpu_count)
       IN  IF r.raised
           THEN main_pc' = "ValueError" /\ UNCHANGED way_tasks
           ELSE main_pc' = "launch" /\ way_tasks' = r.chunks
    /\ UNCHANGED <<db_way_segments, reqVars, call, importVars, runs, db_ways, db_way_node_ids,
                   db_way_lengths, db_way_segment_coverage, cpu_count, workers,
                   joined, indices>>

\* One iteration of the loop of _launch_aggregation_worker, lines 269-272,
\* with WayAggregationWorker.__init__.
LaunchWorker ==
    /\ main_pc = "launch"
    /\ Len(workers) < Len(way_tasks)
    /\ workers' = Append(workers,
                     [way_ids |-> way_tasks[Len(workers) + 1],
                      next |-> 1,
                      state |-> "running",
                      way_lengths |-> << >>,
                      way_segments |-> << >>,
                      way_segment_coverage |-> << >>])
    /\ UNCHANGED <<db_way_segments, reqVars, call, importVars, runs, db_ways, db_way_node_ids,
                   db_way_lengths, db_way_segment_coverage, cpu_count, main_pc,
                   way_tasks, joined, indices>>

\* The return of _launch_aggregation_worker, line 273.
LaunchDone ==
    /\ main_pc = "launch"
    /\ Len(workers) = Len(way_tasks)
    /\ main_pc' = "wait"
    /\ UNCHANGED <<db_way_segments, reqVars, call, importVars, runs, db_ways, db_way_node_ids,
                   db_way_lengths, db_way_segment_coverage, cpu_count, way_tasks,
                   workers, joined, indices>>

\* As AggregateWay, the rows of the way inserted and committed at once.
AggregateWayAndWrite(w) ==
    /\ workers[w].state = "running"
    /\ workers[w].next <= Len(workers[w].way_ids)
    /\ LET way_id == workers[w].way_ids[workers[w].next]
           node_data == _get_way_data(db_way_node_ids, db_nodes, way_id)
           segments == _compute_segments(node_data)
       IN  IF DivisionByZero(segments)
           THEN /\ workers' = [workers EXCEPT ![w].state = "ZeroDivisionError"]
                /\ db_way_lengths' = db_way_lengths \o _create_way_lengths(way_id, segments)
                /\ UNCHANGED <<db_way_segments, db_way_segment_coverage>>
           ELSE /\ workers' = [workers EXCEPT ![w].next = @ + 1]
                /\ db_way_lengths' = db_way_lengths \o _create_way_lengths(way_id, segments)
                /\ db_way_segments' =
                       db_way_segments \o _create_way_segments(way_id, segments)
                /\ db_way_segment_coverage' =
                       db_way_segment_coverage \o
                           _create_way_segment_coverage(way_id, segments)
    /\ UNCHANGED <<reqVars, call, importVars, runs, db_ways, db_way_node_ids, cpu_count, main_pc,
                   way_tasks, joined, indices>>

\* One iteration of the loop of WayAggregationWorker.run, lines 303-307.
\* An exception ends the thread; what it appended before stays in its lists.
AggregateWay(w) ==
    /\ workers[w].state = "running"
    /\ workers[w].next <= Len(workers[w].way_ids)
    /\ LET way_id == workers[w].way_ids[workers[w].next]
           node_data == _get_way_data(db_way_node_ids, db_nodes, way_id)
           segments == _compute_segments(node_data)
       IN  IF DivisionByZero(segments)
           THEN workers' = [workers EXCEPT
                    ![w].state = "ZeroDivisionError",
                    ![w].way_lengths = @ \o _create_way_lengths(way_id, segments)]
           ELSE workers' = [workers EXCEPT
                    ![w].next = @ + 1,
                    ![w].way_lengths = @ \o _create_way_lengths(way_id, segments),
                    ![w].way_segments = @ \o _create_way_segments(way_id, segments),
                    ![w].way_segment_coverage =
                        @ \o _create_way_segment_coverage(way_id, segments)]
    /\ UNCHANGED <<db_way_segments, reqVars, call, importVars, runs, db_ways, db_way_node_ids,
                   db_way_lengths, db_way_segment_coverage, cpu_count, main_pc,
                   way_tasks, joined, indices>>

\* _write_segment_data, lines 346-353: the three inserts of one transaction
\* and its commit; the thread ends.
WriteSegmentData(w) ==
    /\ workers[w].state = "running"
    /\ workers[w].next > Len(workers[w].way_ids)
    /\ db_way_lengths' = db_way_lengths \o workers[w].way_lengths
    /\ db_way_segments' = db_way_segments \o workers[w].way_segments
    /\ db_way_segment_coverage' = db_way_segment_coverage \o workers[w].way_segment_coverage
    /\ workers' = [workers EXCEPT ![w].state = "done"]
    /\ UNCHANGED <<reqVars, call, importVars, runs, db_ways, db_way_node_ids, cpu_count, main_pc,
                   way_tasks, joined, indices>>

\* As JoinWorker, join() returning while the thread is still running.
JoinWorkerNoWait ==
    /\ main_pc = "wait"
    /\ joined < Len(workers)
    /\ joined' = joined + 1
    /\ UNCHANGED <<db_way_segments, reqVars, call, importVars, runs, db_ways, db_way_node_ids,
                   db_way_lengths, db_way_segment_coverage, cpu_count, main_pc,
                   way_tasks, workers, indices>>

\* One iteration of the loop of _wait_for_workers, lines 278-279.
JoinWorker ==
    /\ main_pc = "wait"
    /\ joined < Len(workers)
    /\ workers[joined + 1].state # "running"
    /\ joined' = joined + 1
    /\ UNCHANGED <<db_way_segments, reqVars, call, importVars, runs, db_ways, db_way_node_ids,
                   db_way_lengths, db_way_segment_coverage, cpu_count, main_pc,
                   way_tasks, workers, indices>>

\* _create_aggregation_indices, lines 356-363.  CREATE INDEX of a name the
\* table already has is refused by the server (duplicate key name) and the
\* connector raises ProgrammingError.
CreateAggregationIndices ==
    /\ main_pc = "wait"
    /\ joined = Len(workers)
    /\ IF indices = {}
       THEN /\ indices' = {"way_lengths_index", "way_segments_index",
                           "way_segment_coverage"}
            /\ main_pc' = "done"
       ELSE /\ indices' = indices
            /\ main_pc' = "ProgrammingError"
    /\ UNCHANGED <<db_way_segments, reqVars, call, importVars, runs, db_ways, db_way_node_ids,
                   db_way_lengths, db_way_segment_coverage, cpu_count, way_tasks,
                   workers, joined>>

NextAgg ==
    \/ SplitIntoChunks
    \/ LaunchWorker
    \/ LaunchDone
    \/ \E w \in 1..Len(workers) : AggregateWay(w)
    \/ \E w \in 1..Len(workers) : WriteSegmentData(w)
    \/ JoinWorker
    \/ CreateAggregationIndices

SpecAgg == InitAgg /\ [][NextAgg]_vars

\* ------------------------------------------ main, run again on the database
\* main with --skip-import on the database a run has left, up to the call of
\* _aggregate_ways: _prepare_database drops the aggregation tables (and their
\* indices) when --clear-database is given, _setup_tables creates the tables
\* that are missing and keeps the others with their rows, and the import
\* stage returns at once.
MainSkipImport(clear_database) ==
    /\ main_pc \in {"done", "ValueError", "ProgrammingError"}
    /\ runs < MaxRuns
    /\ runs' = runs + 1
    /\ IF clear_database
       THEN /\ db_way_lengths' = << >>
            /\ db_way_segments' = << >>
            /\ db_way_segment_coverage' = << >>
            /\ indices' = {}
       ELSE UNCHANGED <<db_way_lengths, db_way_segments, db_way_segment_coverage,
                        indices>>
    /\ main_pc' = "aggregate"
    /\ way_tasks' = << >>
    /\ workers' = << >>
    /\ joined' = 0
    /\ UNCHANGED <<reqVars, call, importVars, db_ways, db_way_node_ids, cpu_count>>

NextRerun ==
    \/ NextAgg
    \/ \E clear_database \in BOOLEAN : MainSkipImport(clear_database)

SpecRerun == InitAgg /\ [][NextRerun]_vars

\* ------------------------------------------------------- the import stage
\* config["import"]["highway"]: the highway types that are imported.
highway_types == {"motorway"}

\* OsmHighwayHandler._add_way_to_cache, lines 131-148.  A row of ways is
\* modelled by its way_id.
_add_way_to_cache(data_cache, way) ==
    [size |-> data_cache.size + 1,
     ways |-> Append(data_cache.ways, way.id),
     way_node_ids |->
         data_cache.way_node_ids \o
             [i \in 1..Len(way.nodes) |->
                 [way_id |-> way.id, idx |-> i - 1, node_id |-> way.nodes[i]]]]

\* The table way_node_ids, read as way id -> node ids ordered by insertion,
\* after the rows are inserted.
InsertWayNodeIds(table, rows) ==
    [w \in DOMAIN table \cup {rows[i].way_id : i \in 1..Len(rows)} |->
        LET mine == SelectSeq(rows, LAMBDA r : r.way_id = w)
        IN  (IF w \in DOMAIN table THEN table[w] ELSE << >>)
                \o [i \in 1..Len(mine) |-> mine[i].node_id]]

\* OsmHighwayHandler._write_cache_to_database, lines 150-157: the tables and
\* the cache after the two inserts, the commit and _init_cache.
OsmHighwayHandler_write_cache_to_database(ways, way_node_ids, data_cache) ==
    [ways |-> ways \o data_cache.ways,
     way_node_ids |-> InsertWayNodeIds(way_node_ids, data_cache.way_node_ids),
     data_cache |-> OsmHighwayHandler_init_cache]

\* As OsmNodeHandler_write_cache_to_database, the cache kept after the insert.
OsmNodeHandler_write_cache_and_keep(nodes, data_cache) ==
    [nodes |-> nodes \o data_cache, data_cache |-> data_cache]

\* OsmNodeHandler._write_cache_to_database, lines 219-225.
OsmNodeHandler_write_cache_to_database(nodes, data_cache) ==
    [nodes |-> nodes \o data_cache, data_cache |-> << >>]

\* The OSM files: n ways, each of a highway type that is imported or not,
\* way i running from node i to node i + 1, and the nodes 1..n+1.
OsmFiles ==
    UNION {{[ways |-> [i \in 1..n |-> [id |-> i, highway |-> h[i], nodes |-> <<i, i + 1>>]],
             nodes |-> [j \in 1..(n + 1) |-> j]] :
               h \in [1..n -> {"motorway", "footway"}]} :
           n \in 0..MaxFileWays}

\* _import_osm_into_database entered on empty tables.
InitImport ==
    /\ osm_file \in OsmFiles
    /\ import_pc = "highways"
    /\ file_i = 1
    /\ highway_cache = OsmHighwayHandler_init_cache
    /\ node_ids = {}
    /\ node_cache = << >>
    /\ db_node_ids = << >>
    /\ import_indices = {}
    /\ db_way_segments = << >>
    /\ match_result = [edges |-> << >>, matches |-> << >>]
    /\ RequestAt("idle")
    /\ call = NoCall
    /\ NoAggregation

\* OsmHighwayHandler.way, lines 118-125, for the next way of the file.
OsmHighwayHandler_way ==
    /\ import_pc = "highways"
    /\ file_i <= Len(osm_file.ways)
    /\ file_i' = file_i + 1
    /\ LET way == osm_file.ways[file_i]
           cache == _add_way_to_cache(highway_cache, way)
           written == OsmHighwayHandler_write_cache_to_database(
                          db_ways, db_way_node_ids, cache)
       IN  IF way.highway \in highway_types
           THEN /\ node_ids' = node_ids \cup {way.nodes[i] : i \in 1..Len(way.nodes)}
                /\ IF cache.size >= CACHE_SIZE
                   THEN /\ db_ways' = written.ways
                        /\ db_way_node_ids' = written.way_node_ids
                        /\ highway_cache' = written.data_cache
                   ELSE /\ highway_cache' = cache
                        /\ UNCHANGED <<db_ways, db_way_node_ids>>
           ELSE UNCHANGED <<node_ids, highway_cache, db_ways, db_way_node_ids>>
    /\ UNCHANGED <<db_way_segments, reqVars, call, runs, osm_file, import_pc,
                   node_cache, db_node_ids, import_indices, db_way_lengths,
                   db_way_segment_coverage, cpu_count, main_pc, way_tasks, workers,
                   joined, indices>>

\* OsmHighwayHandler.finalize, lines 127-129, after apply_file, and the call
\* of _import_osm_nodes.
OsmHighwayHandler_finalize ==
    /\ import_pc = "highways"
    /\ file_i > Len(osm_file.ways)
    /\ LET written == OsmHighwayHandler_write_cache_to_database(
                          db_ways, db_way_node_ids, highway_cache)
       IN  /\ db_ways' = written.ways
           /\ db_way_node_ids' = written.way_node_ids
           /\ highway_cache' = written.data_cache
    /\ import_indices' = import_indices \cup {"way_index", "way_node_ids_index"}
    /\ import_pc' = "nodes"
    /\ file_i' = 1
    /\ UNCHANGED <<db_way_segments, reqVars, call, runs, osm_file, node_ids,
                   node_cache, db_node_ids, db_way_lengths,
                   db_way_segment_coverage, cpu_count, main_pc, way_tasks, workers,
                   joined, indices>>

\* OsmNodeHandler.node, lines 204-208, for the next node of the file.
OsmNodeHandler_node ==
    /\ import_pc = "nodes"
    /\ file_i <= Len(osm_file.nodes)
    /\ file_i' = file_i + 1
    /\ LET node == osm_file.nodes[file_i]
           cache == Append(node_cache, node)
           written == OsmNodeHandler_write_cache_to_database(db_node_ids, cache)
       IN  IF node \in node_ids
           THEN IF Len(cache) > CACHE_SIZE
                THEN /\ db_node_ids' = written.nodes
                     /\ node_cache' = written.data_cache
                ELSE /\ node_cache' = cache
                     /\ UNCHANGED db_node_ids
           ELSE UNCHANGED <<node_cache, db_node_ids>>
    /\ UNCHANGED <<db_way_segments, reqVars, call, runs, osm_file, import_pc,
                   highway_cache, node_ids, import_indices, aggVars>>

\* OsmNodeHandler.finalize, lines 210-212, after apply_file.
OsmNodeHandler_finalize ==
    /\ import_pc = "nodes"
    /\ file_i > Len(osm_file.nodes)
    /\ LET written == OsmNodeHandler_write_cache_to_database(db_node_ids, node_cache)
       IN  /\ db_node_ids' = written.nodes
           /\ node_cache' = written.data_cache
    /\ import_indices' = import_indices \cup {"nodes_index"}
    /\ import_pc' = "done"
    /\ UNCHANGED <<db_way_segments, reqVars, call, runs, osm_file, file_i,
                   highway_cache, node_ids, aggVars>>

NextImport ==
    \/ OsmHighwayHandler_way
    \/ OsmHighwayHandler_finalize
    \/ OsmNodeHandler_node
    \/ OsmNodeHandler_finalize

SpecImport == InitImport /\ [][NextImport]_vars

\* ----------------------------------------------------------- properties
Edges == match_result.edges
Matches == match_result.matches

\* Position of a match point along the route, in twentieths of an edge.
RoutePosition(p) == p.edge_index * 20 + p.edge_ratio[1] * (20 \div p.edge_ratio[2])

FollowsRoute(matches) ==
    \A i \in 1..(Len(matches) - 1) : RoutePosition(matches[i]) < RoutePosition(matches[i + 1])

\* The WaySegment Index, read from the rows of the table.
NumSegments(w) ==
    Cardinality({i \in 1..Len(db_way_segments) : db_way_segments[i].way_id = w})

Tracked(w) == NumSegments(w) > 0

StartRatio(w, id) ==
    LET i == CHOOSE j \in 1..Len(db_way_segments) :
                 db_way_segments[j].way_id = w /\ db_way_segments[j].segment_id = id
    IN  db_way_segments[i].way_length_ratio

\* Q is the pair that follows P on the route: the next segment of the way
\* of P, or segment 0 of the way of the edge that follows the first edge of
\* the way of P.
Follows(P, Q) ==
    \/ /\ Q[1] = P[1]
       /\ Q[2] = P[2] + 1
       /\ P[2] + 1 <= NumSegments(P[1]) - 1
    \/ /\ P[2] = NumSegments(P[1]) - 1
       /\ Q[2] = 0
       /\ \E i \in 1..(Len(Edges) - 1) :
             /\ Edges[i].way_id = P[1]
             /\ \A j \in 1..(i - 1) : Edges[j].way_id # P[1]
             /\ Q[1] = Edges[i + 1].way_id

GapFree(run) == \A k \in 1..(Len(run) - 1) : Follows(run[k], run[k + 1])

Completed == pc = "done" /\ stdout # << >>

\* C1: every run of the CoverageTrace of a request that passed the ordering
\* validation and was reconciled to the end is gap-free: each pair is followed
\* by the next segment of its way or, after the last segment of the way, by
\* segment 0 of the next way of the route.
C1_RunsGapFree ==
    Completed => \A k \in 1..Len(stdout[1]) : GapFree(stdout[1][k])

\* A completed run that filled a gap across the boundary of two ways.
C1_Witness ==
    /\ Completed
    /\ \E k \in 1..Len(stdout[1]) :
          /\ Len(stdout[1][k]) > Len(travelled_way_segments[k])
          /\ \E j \in 1..(Len(stdout[1][k]) - 1) :
                stdout[1][k][j][1] # stdout[1][k][j + 1][1]

\* C2: _is_valid_match_result returns true exactly for the match lists that
\* follow the route: each point lies strictly further along the route than
\* the point before it; a tie or an inversion makes the result false, and a
\* list of no or one point is valid.
C2_ValidIffStrictlyIncreasing ==
    (call.fn = "_is_valid_match_result" /\ call.returned) =>
        /\ call.valid <=> FollowsRoute(call.matches)
        /\ Len(call.matches) <= 1 => call.valid

\* A list of three points with a tie has been rejected.
C2_Witness ==
    /\ call.fn = "_is_valid_match_result"
    /\ call.returned
    /\ ~call.valid
    /\ Len(call.matches) = 3
    /\ RoutePosition(call.matches[1]) < RoutePosition(call.matches[2])
    /\ call.matches[2] = call.matches[3]

\* Tie or inversion between consecutive match points of the request.
OutOfOrder == ~FollowsRoute(Matches)

\* C3: a request whose match points are out of order is aborted as a whole:
\* the error is logged, the database is never queried, no run is split off or
\* filled, and nothing is printed.
C3_InvalidRequestAborts ==
    OutOfOrder =>
        /\ pc \in {"start", "done"}
        /\ pc = "done" => log = <<"Provided match_result is invalid">>
        /\ queries = 0
        /\ osm_way_segments = << >>
        /\ new_trace = << >> /\ travelled_way_segments = << >>
        /\ completed_segments = << >> /\ completed_travelled_way_segments = << >>
        /\ stdout = << >>

\* A request with two tracked points in the wrong order has been aborted.
C3_Witness ==
    /\ OutOfOrder
    /\ pc = "done"
    /\ log # << >>
    /\ \A i \in 1..Len(Matches) : Tracked(Edges[Matches[i].edge_index + 1].way_id)
    /\ \E i \in 1..(Len(Matches) - 1) :
          RoutePosition(Matches[i]) > RoutePosition(Matches[i + 1])

\* The ratios of a loaded way begin at 0 and never decrease.
StartsAtZeroNonDecreasing(way_segments) ==
    /\ Len(way_segments) >= 1
    /\ way_segments[1].ratio = <<0, 1>>
    /\ \A i \in 1..(Len(way_segments) - 1) :
          ~RatLT(way_segments[i + 1].ratio, way_segments[i].ratio)

\* Segment id owns the ratio r: start_ratio[id] <= r, and r < start_ratio[id+1]
\* unless id is the last segment.
Owns(way_segments, id, r) ==
    /\ id \in 0..(Len(way_segments) - 1)
    /\ ~RatLT(r, way_segments[id + 1].ratio)
    /\ id = Len(way_segments) - 1 \/ RatLT(r, way_segments[id + 2].ratio)

\* C4: for a way of at least one segment whose start ratios begin at 0 and
\* never decrease, and a ratio in [0, 1), _get_segment_id_by_ratio returns
\* the one segment id that owns the ratio, the intervals being closed on the
\* left and open on the right.
C4_LookupClosedOpen ==
    (/\ call.fn = "_get_segment_id_by_ratio"
     /\ call.returned
     /\ StartsAtZeroNonDecreasing(call.way_segments)
     /\ ~RatLT(call.edge_ratio, <<0, 1>>)
     /\ RatLT(call.edge_ratio, <<1, 1>>)) =>
        {id \in 0..(Len(call.way_segments) - 1) :
            Owns(call.way_segments, id, call.edge_ratio)} = {call.segment_id}

\* A ratio equal to the start ratio of a later segment was given that segment.
C4_Witness ==
    /\ call.fn = "_get_segment_id_by_ratio"
    /\ call.returned
    /\ Len(call.way_segments) >= 3
    /\ call.segment_id = 1
    /\ call.way_segments[2].ratio = call.edge_ratio
    /\ RatLT(<<0, 1>>, call.edge_ratio)
    /\ RatLT(call.edge_ratio, call.way_segments[3].ratio)

PointTracked(i) == Tracked(Edges[Matches[i].edge_index + 1].way_id)

\* First points of the maximal blocks of consecutive points on tracked ways.
BlockStarts ==
    {i \in 1..Len(Matches) : PointTracked(i) /\ (i = 1 \/ ~PointTracked(i - 1))}

BlockStart(k) ==
    CHOOSE s \in BlockStarts : Cardinality({t \in BlockStarts : t < s}) = k - 1

BlockLength(s) ==
    Cardinality({j \in s..Len(Matches) : \A i \in s..j : PointTracked(i)})

SplitDone == pc \in {"fill", "while", "done", "raised", "diverged"} /\ ~OutOfOrder

\* C5: run splitting yields one run for each maximal block of consecutive
\* match points on tracked ways: the k-th run has one pair for each point of
\* the k-th block, on the way of that point; a point on an untracked way adds
\* no pair, no run is empty, and the printed CoverageTrace has as many runs.
C5_OneRunPerTrackedBlock ==
    /\ SplitDone =>
          /\ Len(travelled_way_segments) = Cardinality(BlockStarts)
          /\ \A k \in 1..Len(travelled_way_segments) :
                /\ travelled_way_segments[k] # << >>
                /\ Len(travelled_way_segments[k]) = BlockLength(BlockStart(k))
                /\ \A j \in 1..Len(travelled_way_segments[k]) :
                      travelled_way_segments[k][j][1] =
                          Edges[Matches[BlockStart(k) + j - 1].edge_index + 1].way_id
    /\ Completed =>
          /\ Len(stdout[1]) = Cardinality(BlockStarts)
          /\ \A k \in 1..Len(stdout[1]) : stdout[1][k] # << >>

\* Two tracked points, one untracked point, two tracked points: two runs.
C5_Witness ==
    /\ Completed
    /\ Len(Matches) = 5
    /\ PointTracked(1) /\ PointTracked(2) /\ ~PointTracked(3)
    /\ PointTracked(4) /\ PointTracked(5)
    /\ Len(travelled_way_segments) = 2
    /\ Len(travelled_way_segments[1]) = 2 /\ Len(travelled_way_segments[2]) = 2
    /\ Len(stdout[1]) = 2

\* Every pair of the run is the same as the pair before it or follows it.
Contiguous(run) ==
    \A k \in 1..(Len(run) - 1) : run[k + 1] = run[k] \/ Follows(run[k], run[k + 1])

\* The run with each block of adjacent identical pairs collapsed to one pair.
RECURSIVE Collapsed(_)
Collapsed(run) ==
    IF Len(run) <= 1 THEN run
    ELSE IF run[Len(run)] = run[Len(run) - 1]
         THEN Collapsed(SubSeq(run, 1, Len(run) - 1))
         ELSE Append(Collapsed(SubSeq(run, 1, Len(run) - 1)), run[Len(run)])

\* C6 as stated: the completed run of an already contiguous run (consecutive
\* pairs identical or adjacent) equals the run, nothing inserted or removed.
C6_ContiguousRunUnchanged ==
    Completed =>
        \A k \in 1..Len(stdout[1]) :
            Contiguous(travelled_way_segments[k]) =>
                stdout[1][k] = travelled_way_segments[k]

\* C6 as amended: the completed run of an already contiguous run is that run
\* with adjacent identical pairs collapsed to one pair; no pair is inserted.
C6_ContiguousRunCollapsed ==
    Completed =>
        \A k \in 1..Len(stdout[1]) :
            Contiguous(travelled_way_segments[k]) =>
                stdout[1][k] = Collapsed(travelled_way_segments[k])

\* A contiguous run with a repeated pair and a step across two ways.
C6_Witness ==
    /\ Completed
    /\ \E k \in 1..Len(stdout[1]) :
          LET run == travelled_way_segments[k]
          IN  /\ Contiguous(run)
              /\ Len(run) = 3
              /\ run[1] = run[2]
              /\ run[3][1] # run[2][1]
              /\ Len(stdout[1][k]) = 2

\* C7: every pair appended during gap filling, observed or synthetic, is a
\* pair of the WaySegment Index: its way has rows and its segment id lies
\* between 0 and the last segment id of the way.
InIndex(P) == Tracked(P[1]) /\ 0 <= P[2] /\ P[2] <= NumSegments(P[1]) - 1

C7_AppendedPairsInIndex ==
    /\ \A j \in 1..Len(completed_segments) : InIndex(completed_segments[j])
    /\ \A k \in 1..Len(completed_travelled_way_segments) :
          \A j \in 1..Len(completed_travelled_way_segments[k]) :
              InIndex(completed_travelled_way_segments[k][j])

\* The segment of the index that owns the ratio r on way w.
SegmentAt(w, r) ==
    CHOOSE id \in 0..(NumSegments(w) - 1) :
        /\ ~RatLT(r, StartRatio(w, id))
        /\ id = NumSegments(w) - 1 \/ RatLT(r, StartRatio(w, id + 1))

\* The pairs (w, a), (w, a + 1), ..., (w, b).
SegmentRange(w, a, b) == [k \in 1..(b - a + 1) |-> <<w, a + k - 1>>]

TwoPointsOnOneEdge ==
    /\ Len(Matches) = 2
    /\ Matches[1].edge_index = Matches[2].edge_index
    /\ Tracked(Edges[Matches[1].edge_index + 1].way_id)

\* C8: two match points on the same edge of a tracked way W, in segments a
\* and b with a < b, are reconciled to the one run (W, a), (W, a + 1), ...,
\* (W, b), each segment once.
C8_SameEdgeRun ==
    (Completed /\ TwoPointsOnOneEdge) =>
        LET w == Edges[Matches[1].edge_index + 1].way_id
            a == SegmentAt(w, Matches[1].edge_ratio)
            b == SegmentAt(w, Matches[2].edge_ratio)
        IN  a < b => stdout[1] = <<SegmentRange(w, a, b)>>

\* Ratios 0.05 and 0.95 on a way of five equal segments: segments 0 to 4.
C8_Witness ==
    /\ Completed
    /\ TwoPointsOnOneEdge
    /\ NumSegments(1) = 5
    /\ Matches[1].edge_ratio = <<1, 20>>
    /\ Matches[2].edge_ratio = <<19, 20>>
    /\ stdout[1] = << <<<<1, 0>>, <<1, 1>>, <<1, 2>>, <<1, 3>>, <<1, 4>>>> >>

\* Number of nodes of the way that have a row in the table nodes.
ResolvedNodes(way_id) ==
    Cardinality({i \in 1..Len(db_way_node_ids[way_id]) :
                    db_way_node_ids[way_id][i] \in DOMAIN db_nodes})

RowsOf(rows, way_id) == {i \in 1..Len(rows) : rows[i].way_id = way_id}

\* C9: a worker that has ended holds, for every way of its chunk with N >= 2
\* resolved nodes, exactly N - 1 WaySegment rows, with the segment ids 0, 1,
\* ..., N - 2, whatever the distances between the nodes.
C9_SegmentsPerWay ==
    \A w \in 1..Len(workers) :
        workers[w].state # "running" =>
            \A i \in 1..Len(workers[w].way_ids) :
                LET way_id == workers[w].way_ids[i]
                    rows == RowsOf(workers[w].way_segments, way_id)
                IN  ResolvedNodes(way_id) >= 2 =>
                        /\ Cardinality(rows) = ResolvedNodes(way_id) - 1
                        /\ {workers[w].way_segments[r].segment_id : r \in rows} =
                               0..(ResolvedNodes(way_id) - 2)

\* Sum of the lengths of the rows of the set S.
RECURSIVE LengthOf(_, _)
LengthOf(rows, S) ==
    IF S = {} THEN 0
    ELSE LET i == CHOOSE x \in S : TRUE
         IN  rows[i].length + LengthOf(rows, S \ {i})

\* The rows of one list of WaySegment rows obey the ratio rule: start_ratio
\* times the length of the way is the length of the segments before it.
RatiosCumulative(rows) ==
    \A i \in 1..Len(rows) :
        LET same == RowsOf(rows, rows[i].way_id)
            before == {j \in same : rows[j].segment_id < rows[i].segment_id}
            ratio == rows[i].way_length_ratio
        IN  /\ ratio[2] > 0
            /\ ratio[1] * LengthOf(rows, same) = ratio[2] * LengthOf(rows, before)
            /\ rows[i].segment_id = 0 => ratio[1] = 0
            /\ ratio[1] <= ratio[2]
            /\ \A j \in same :
                  rows[j].segment_id <= rows[i].segment_id =>
                      ~RatLT(ratio, rows[j].way_length_ratio)

\* The recorded length of each way is the sum of the lengths of its segments.
LengthsAreSums(lengths, rows) ==
    \A i \in 1..Len(lengths) :
        lengths[i].length = LengthOf(rows, RowsOf(rows, lengths[i].way_id))

\* C10: for every aggregated way the start_ratio of segment i is the length
\* of the segments 0..i-1 divided by the length of all segments of the way:
\* 0 for segment 0, never decreasing with the segment id, at most 1; and the
\* recorded way length is the sum of the segment lengths.  It holds of the
\* rows each worker has computed and of the rows of the tables.
C10_StartRatioCumulative ==
    /\ RatiosCumulative(db_way_segments)
    /\ LengthsAreSums(db_way_lengths, db_way_segments)
    /\ \A w \in 1..Len(workers) :
          /\ RatiosCumulative(workers[w].way_segments)
          /\ LengthsAreSums(workers[w].way_lengths, workers[w].way_segments)

\* The table holds a way of three segments of equal length.
C10_Witness ==
    /\ main_pc = "done"
    /\ \E i, j, k \in 1..Len(db_way_segments) :
          /\ db_way_segments[i].way_id = db_way_segments[j].way_id
          /\ db_way_segments[j].way_id = db_way_segments[k].way_id
          /\ db_way_segments[i].way_length_ratio = <<0, 1>>
          /\ db_way_segments[j].way_length_ratio = <<1, 3>>
          /\ db_way_segments[k].way_length_ratio = <<2, 3>>
          /\ db_way_segments[k].segment_id = 2

\* The way ids of chunk c and the rows of a table that belong to them.
ChunkWayIds(c) == {way_tasks[c][i] : i \in 1..Len(way_tasks[c])}

RowsOfChunk(rows, c) == SelectSeq(rows, LAMBDA r : r.way_id \in ChunkWayIds(c))

ChunkUnwritten(c) ==
    /\ RowsOfChunk(db_way_lengths, c) = << >>
    /\ RowsOfChunk(db_way_segments, c) = << >>
    /\ RowsOfChunk(db_way_segment_coverage, c) = << >>

\* Every way of the chunk has its length row, and the tables hold what the
\* worker computed for the chunk, all of it.
ChunkWritten(c) ==
    /\ Len(workers[c].way_lengths) = Len(way_tasks[c])
    /\ RowsOfChunk(db_way_lengths, c) = workers[c].way_lengths
    /\ RowsOfChunk(db_way_segments, c) = workers[c].way_segments
    /\ RowsOfChunk(db_way_segment_coverage, c) = workers[c].way_segment_coverage

\* C11: in every state of an aggregation, a worker failure in the middle of a
\* chunk included, each chunk is either completely unwritten or completely
\* written: the rows of all its ways appear in the three tables together,
\* with the commit that ends the worker's run.
C11_ChunkAllOrNothing ==
    \A c \in 1..Len(way_tasks) :
        IF c <= Len(workers) /\ workers[c].state = "done"
        THEN ChunkWritten(c)
        ELSE ChunkUnwritten(c)

\* A worker failed on the second way of its chunk, the rows of the first way
\* computed, and the aggregation went on to its end.
C11_Witness ==
    /\ main_pc = "done"
    /\ \E c \in 1..Len(workers) :
          /\ workers[c].state = "ZeroDivisionError"
          /\ workers[c].next > 1
          /\ workers[c].way_segments # << >>
          /\ ChunkUnwritten(c)

\* The way references a node that has no row in the table nodes.
HasUnresolvedNode(way_id) ==
    \E i \in 1..Len(db_way_node_ids[way_id]) :
        db_way_node_ids[way_id][i] \notin DOMAIN db_nodes

\* C12: a way that references a node without a resolvable coordinate fails
\* its aggregation: no WaySegment row is computed or written for it, while
\* the other ways of the batch are aggregated.
C12_UnresolvedWaySkipped ==
    \A w \in 1..Len(workers) :
        \A i \in 1..(workers[w].next - 1) :
            LET way_id == workers[w].way_ids[i]
            IN  HasUnresolvedNode(way_id) =>
                    /\ RowsOf(workers[w].way_segments, way_id) = {}
                    /\ RowsOf(db_way_segments, way_id) = {}

\* C13: the indices of the aggregation tables are never created while a
\* launched worker is still running: when the first index exists, a worker
\* was launched for every chunk and every worker has terminated.
C13_IndicesAfterWorkers ==
    (indices # {} \/ main_pc = "done") =>
        /\ Len(workers) = Len(way_tasks)
        /\ \A w \in 1..Len(workers) : workers[w].state # "running"

\* The indices exist after two workers ran, one to its end and one that
\* failed.
C13_Witness ==
    /\ indices # {}
    /\ Len(workers) = 2
    /\ workers[1].state = "ZeroDivisionError"
    /\ workers[2].state = "done"

\* The chunks put one after another.
RECURSIVE Concatenation(_)
Concatenation(chunks) ==
    IF chunks = << >> THEN << >> ELSE chunks[1] \o Concatenation(Tail(chunks))

\* C14: for every list of way ids, the empty list and the lists shorter than
\* the parallelism N included, _split_into_chunks returns N chunks whose
\* concatenation is the list, so that every way id is in exactly one chunk.
C14_SplitIntoNChunks ==
    main_pc # "aggregate" =>
        /\ main_pc # "ValueError"
        /\ Len(way_tasks) = cpu_count
        /\ Concatenation(way_tasks) = db_ways

\* The way ids a worker holds rows for.
WayIdsOf(w) ==
    {workers[w].way_lengths[i].way_id : i \in 1..Len(workers[w].way_lengths)}
        \cup {workers[w].way_segments[i].way_id : i \in 1..Len(workers[w].way_segments)}
        \cup {workers[w].way_segment_coverage[i].way_id :
                 i \in 1..Len(workers[w].way_segment_coverage)}

\* The WaySegment rows one worker computes for the ways in the order given.
RECURSIVE SequentialAggregation(_)
SequentialAggregation(way_ids) ==
    IF way_ids = << >> THEN << >>
    ELSE _create_way_segments(way_ids[1],
             _compute_segments(_get_way_data(db_way_node_ids, db_nodes, way_ids[1])))
         \o SequentialAggregation(Tail(way_ids))

RowSet(rows) == {rows[i] : i \in 1..Len(rows)}

AllWorkersFinished ==
    /\ main_pc \in {"wait", "done"}
    /\ \A w \in 1..Len(workers) : workers[w].state = "done"

C16_OneRowPerSegment ==
    \A i, j \in 1..Len(db_way_segments) :
        (/\ db_way_segments[i].way_id = db_way_segments[j].way_id
         /\ db_way_segments[i].segment_id = db_way_segments[j].segment_id)
            => i = j

\* The ids of the ways OsmHighwayHandler.way accepts among the first k ways of
\* the file, and of the nodes OsmNodeHandler.node accepts among the first k
\* nodes, in arrival order.
AcceptedWays(k) ==
    LET accepted == SelectSeq(SubSeq(osm_file.ways, 1, k),
                              LAMBDA way : way.highway \in highway_types)
    IN  [i \in 1..Len(accepted) |-> accepted[i].id]

AcceptedNodes(k) == SelectSeq(SubSeq(osm_file.nodes, 1, k), LAMBDA node : node \in node_ids)

\* C17: whatever records an import buffer accepts, the records written and
\* the records buffered are, one after the other, the accepted records in
\* arrival order, each once (a flush writes the buffer and clears it); after
\* finalize every accepted record is written and the buffer is empty.
C17_BufferWritesOnceInOrder ==
    /\ import_pc = "highways" =>
          /\ db_ways \o highway_cache.ways = AcceptedWays(file_i - 1)
          /\ highway_cache.size = Len(highway_cache.ways)
    /\ import_pc \in {"nodes", "done"} =>
          /\ db_ways = AcceptedWays(Len(osm_file.ways))
          /\ highway_cache = OsmHighwayHandler_init_cache
          /\ \A i \in 1..Len(osm_file.ways) :
                osm_file.ways[i].highway \in highway_types =>
                    db_way_node_ids[osm_file.ways[i].id] = osm_file.ways[i].nodes
    /\ import_pc = "nodes" =>
          db_node_ids \o node_cache = AcceptedNodes(file_i - 1)
    /\ import_pc = "done" =>
          /\ db_node_ids = AcceptedNodes(Len(osm_file.nodes))
          /\ node_cache = << >>

\* An import ended in which both buffers were flushed on reaching their
\* capacity and again by finalize, one way of the file not being imported.
C17_Witness ==
    /\ import_pc = "done"
    /\ Len(db_ways) > CACHE_SIZE
    /\ Len(db_ways) < Len(osm_file.ways)
    /\ Len(db_node_ids) > CACHE_SIZE + 1
    /\ Len(db_node_ids) < Len(osm_file.nodes)

\* C18: after every accept call returns, the buffer holds fewer than
\* CACHE_SIZE records, the way buffer of OsmHighwayHandler and the node
\* buffer of OsmNodeHandler alike.
C18_BufferBelowCapacity ==
    /\ highway_cache.size < CACHE_SIZE
    /\ Len(node_cache) < CACHE_SIZE

\* Every way of the route has segments in the WaySegment Index.
RouteTracked == \A i \in 1..Len(Edges) : Tracked(Edges[i].way_id)

\* C19: gap filling terminates for every match result that passes the
\* ordering validation and whose route ways are all in the WaySegment Index:
\* the while loop of _fill_in_missing_segments never runs on without reaching
\* the next observed pair.
C19_FillTerminates ==
    (_is_valid_match_result(match_result) /\ RouteTracked) => pc # "diverged"

\* The 0-based indices of the edges of the way on the route of the call.
EdgesOfWay == {i \in 0..(Len(call.edges) - 1) : call.edges[i + 1].way_id = call.cur_edge_id}

FirstEdgeOfWay == CHOOSE i \in EdgesOfWay : \A j \in EdgesOfWay : i <= j

\* C20: _get_next_way returns the way of the edge that follows the first edge
\* of the current way and, when that first edge is the last edge of the route
\* (or the way is not on the route), returns None instead of raising.
C20_NextWayOrNone ==
    (call.fn = "_get_next_way" /\ call.returned) =>
        /\ ~call.raised
        /\ call.next_way =
              IF EdgesOfWay # {} /\ FirstEdgeOfWay + 1 <= Len(call.edges) - 1
              THEN call.edges[FirstEdgeOfWay + 2].way_id
              ELSE NoWay

\* C21: for a way of at least one segment, a ratio below the first start
\* ratio (no segment starts at or below it) and a ratio at or above every
\* start ratio are both given the last segment of the way, n - 1.
C21_FallbackLastSegment ==
    (/\ call.fn = "_get_segment_id_by_ratio"
     /\ call.returned
     /\ Len(call.way_segments) >= 1
     /\ \/ \A i \in 1..Len(call.way_segments) :
              RatLT(call.edge_ratio, call.way_segments[i].ratio)
        \/ \A i \in 1..Len(call.way_segments) :
              ~RatLT(call.edge_ratio, call.way_segments[i].ratio)) =>
        call.segment_id = Len(call.way_segments) - 1

\* C22: for a match result that passes the ordering validation, the value
\* map_match_result_to_osm_way_segments hands back to its caller is the
\* CoverageTrace, the list of the completed runs in run order.
C22_ReturnsCoverageTrace ==
    (Completed /\ FollowsRoute(Matches)) =>
        return_value = [kind |-> "list", value |-> completed_travelled_way_segments]

\* The pairs of a occur in b in the order they have in a.
RECURSIVE IsSubsequence(_, _)
IsSubsequence(a, b) ==
    IF a = << >> THEN TRUE
    ELSE IF b = << >> THEN FALSE
    ELSE IF a[1] = b[1] THEN IsSubsequence(Tail(a), Tail(b))
    ELSE IsSubsequence(a, Tail(b))

\* C23: each completed run keeps the observed pairs of its input run: it
\* begins with the first observed pair, ends with the last one, and holds the
\* observed pairs, adjacent identical ones collapsed to one, in their order.
C23_ObservedPairsPreserved ==
    /\ Completed =>
          /\ stdout[1] = completed_travelled_way_segments
          /\ Len(stdout[1]) = Len(travelled_way_segments)
    /\ \A k \in 1..Len(completed_travelled_way_segments) :
          LET observed == travelled_way_segments[k]
              completed == completed_travelled_way_segments[k]
          IN  /\ Len(completed) >= 1
              /\ completed[1] = observed[1]
              /\ completed[Len(completed)] = observed[Len(observed)]
              /\ IsSubsequence(Collapsed(observed), completed)

\* A completed run of three observed pairs, two of them identical, with a
\* synthetic pair filled in between two observed ones.
C23_Witness ==
    /\ Completed
    /\ \E k \in 1..Len(stdout[1]) :
          LET observed == travelled_way_segments[k]
          IN  /\ Len(observed) = 3
              /\ Len(Collapsed(observed)) = 2
              /\ Len(stdout[1][k]) > 2

\* The while loop is about to call _get_next_way: the pair after iter_segment
\* lies beyond the last segment of its way.
RollOverDue ==
    /\ pc = "while"
    /\ iter_segment # travelled_way_segments[run_i][seg_i]
    /\ fill_steps <= TotalSegments(osm_way_segments)
    /\ iter_segment[1] \in DOMAIN osm_way_segments
    /\ iter_segment[2] + 1 > Len(osm_way_segments[iter_segment[1]]) - 1

\* The way is on the route and its first edge is not the last edge.
HasNextEdge(way_id) ==
    \E i \in 1..(Len(Edges) - 1) :
        /\ Edges[i].way_id = way_id
        /\ \A j \in 1..(i - 1) : Edges[j].way_id # way_id

\* C24: for a match result that passes the ordering validation and whose
\* route ways are all in the WaySegment Index, gap filling never reads past
\* the end of the Edge list: _get_next_way is only called for a way whose
\* first edge has an edge after it, no IndexError is raised and no pair gets
\* None as its way.
C24_NeverPastLastEdge ==
    (FollowsRoute(Matches) /\ RouteTracked) =>
        /\ exception # "IndexError"
        /\ RollOverDue => HasNextEdge(iter_segment[1])
        /\ iter_segment # None => iter_segment[1] # NoWay
        /\ \A i \in 1..Len(completed_segments) : completed_segments[i][1] # NoWay

\* Gap filling calls _get_next_way for a way that is also the way of the
\* last edge of a route of three edges.
C24_Witness ==
    /\ FollowsRoute(Matches)
    /\ RouteTracked
    /\ RollOverDue
    /\ Len(Edges) = 3
    /\ iter_segment[1] = Edges[3].way_id
    /\ Edges[2].way_id # Edges[3].way_id
====
